---- MODULE Spec2Model ----
(***************************************************************************)
(* A model of the consensus core of paenko/raft-rs (src/src/consensus.rs)  *)
(* with its replicated log (src/src/document/src/doclog.rs), the           *)
(* transaction manager and the per-role state records.                     *)
(*                                                                         *)
(* Every handler of Consensus is a pure operator from (consensus, inputs,  *)
(* Actions) to a pair [s |-> consensus', a |-> Actions'], translated       *)
(* statement by statement; one action of the state machine is one event    *)
(* handled to completion, followed by the dispatch of its Actions.         *)
(***************************************************************************)
EXTENDS Integers, Sequences, FiniteSets, TLC

\* ------------------------------------------------------------------ bounds
MaxTerm == 2            \* no election timeout fires at this term
MaxLog == 2             \* no proposal is appended to a log of this length
MaxInFlight == 2        \* capacity of one directed connection
MaxProposals == 2       \* client proposals handled in one run
MaxTransactionRequests == 2  \* client transaction requests handled in one run
MaxClusterSize == 10    \* cluster sizes of the quorum specification
MaxScenarioServers == 9 \* cluster sizes of the scenario specification
MaxStimuli == 3         \* timeouts and client requests a scenario applies

\* ------------------------------------------------------------------ values
Pair == {1, 2}          \* the ServerIds of new_cluster(2)
Trio == {1, 2, 3}       \* the ServerIds of new_cluster(3)
None == 0               \* Option::None for ServerId / TransactionId
Empty == 0              \* the empty byte string b""
Command == 1..MaxProposals  \* non-empty command bytes, one value per proposal
Session == {1, 2}       \* TransactionId
Client == {1}           \* ClientId

Min(x, y) == IF x <= y THEN x ELSE y

\* A handler's outcome: the consensus instance and the Actions it filled.
Ret(s, a) == [s |-> s, a |-> a]

\* A Rust panic: the event aborts; the instance handles nothing afterwards.
Panic(s, why) == [s EXCEPT !.panic = IF @ = "" THEN why ELSE @]

\* ----------------------------------------------------------------- Actions
ActionsNew ==
    [peer_messages |-> <<>>, client_messages |-> <<>>, clear_timeouts |-> <<>>,
     timeouts |-> <<>>, clear_peer_messages |-> FALSE, transaction_queue |-> <<>>,
     peer_messages_broadcast |-> <<>>]

push_peer(a, to, m) == [a EXCEPT !.peer_messages = Append(@, <<to, m>>)]
push_client(a, to, m) == [a EXCEPT !.client_messages = Append(@, <<to, m>>)]
push_timeout(a, t) == [a EXCEPT !.timeouts = Append(@, t)]
push_clear_timeouts(a) == [a EXCEPT !.clear_timeouts = Append(@, "lid")]
push_broadcast(a, m) == [a EXCEPT !.peer_messages_broadcast = Append(@, m)]

ElectionTimer == [kind |-> "Election", peer |-> None]
HeartbeatTimer(p) == [kind |-> "Heartbeat", peer |-> p]

\* ---------------------------------------------------------------- messages
AppendEntriesRequestMsg(term, prev_index, prev_term, es, commit) ==
    [type |-> "AppendEntriesRequest", term |-> term, prev_log_index |-> prev_index,
     prev_log_term |-> prev_term, entries |-> es, leader_commit |-> commit]
AppendEntriesResponseMsg(term, which, index) ==
    [type |-> "AppendEntriesResponse", term |-> term, which |-> which, index |-> index]
RequestVoteRequestMsg(term, last_index, last_term) ==
    [type |-> "RequestVoteRequest", term |-> term, last_log_index |-> last_index,
     last_log_term |-> last_term]
RequestVoteResponseMsg(term, which) ==
    [type |-> "RequestVoteResponse", term |-> term, which |-> which]
TransactionMsg(type, session) == [type |-> type, session |-> session]
ClientResponse(which, payload) == [which |-> which, payload |-> payload]

\* --------------------------------------------------------------------- Log
\* The log is the fields current_term, voted_for and entries of the instance;
\* an entry is <<term, bytes>>.
latest_log_index(s) == Len(s.entries)
latest_log_term(s) ==
    IF Len(s.entries) = 0 THEN 0 ELSE s.entries[Len(s.entries)][1]
set_voted_for(s, v) == [s EXCEPT !.voted_for = v]
set_current_term(s, t) == set_voted_for([s EXCEPT !.current_term = t], None)
inc_current_term(s) == set_current_term(set_voted_for(s, None), s.current_term + 1)
\* A truncate that is off by one: it keeps one element less.
truncate_one_less(s, lo) ==
    [s EXCEPT !.entries = IF lo - 1 < Len(@) THEN SubSeq(@, 1, lo - 1) ELSE @]

\* Vec::truncate keeps the first n elements and is a no-op when n >= len.
truncate(s, lo) ==
    [s EXCEPT !.entries = IF lo < Len(@) THEN SubSeq(@, 1, lo) ELSE @]
\* append_entries that extends without truncating.
append_entries_without_truncate(s, from, es) ==
    IF latest_log_index(s) + 1 < from
    THEN Panic(s, "append_entries: gap")
    ELSE [s EXCEPT !.entries = @ \o es]
\* append_entries asserts from <= latest + 1, truncates to from - 1, extends.
append_entries(s, from, es) ==
    IF latest_log_index(s) + 1 < from
    THEN Panic(s, "append_entries: gap")
    ELSE [truncate(s, from - 1) EXCEPT !.entries = @ \o es]
\* rollback returns the entries above lo, first to last, and removes nothing;
\* slicing past the end panics.
rollback_entries(s, lo) ==
    IF lo > Len(s.entries) THEN <<>> ELSE SubSeq(s.entries, lo + 1, Len(s.entries))
\* entries(from, until): the entries at indices from .. until - 1.
log_entries(s, from, until) == SubSeq(s.entries, from, until - 1)

\* ------------------------------------------------------------------ DocLog
\* DocLog keeps current_term and voted_for in the files "term" and "voted_for"
\* of the working directory, whichever instance is called, and the entries in
\* the instance.  A file is the sequence of the words written to it: the
\* files are opened without truncation and written from the start, so a
\* shorter value overwrites a prefix.
\* A file opened for appending instead.
write_at_end(file, words) == file \o words
write_from_start(file, words) ==
    words \o SubSeq(file, Len(words) + 1, Len(file))
\* bincode of Option<ServerId>: the tag, then the id of a Some.
encode_voted_for(v) == IF v = None THEN <<0>> ELSE <<1, v>>
decode_voted_for(file) == IF file[1] = 0 THEN None ELSE file[2]
doclog_current_term(fs) == fs.term[1]
doclog_voted_for(fs) == decode_voted_for(fs.voted_for)
doclog_set_voted_for(fs, v) ==
    [fs EXCEPT !.voted_for = write_from_start(@, encode_voted_for(v))]
doclog_set_current_term(fs, term) ==
    doclog_set_voted_for([fs EXCEPT !.term = write_from_start(@, <<term>>)], None)
doclog_inc_current_term(fs) ==
    LET f1 == doclog_set_voted_for(fs, None)
        f2 == doclog_set_current_term(f1, doclog_current_term(f1) + 1)
    IN  [fs |-> f2, ret |-> doclog_current_term(f2)]
\* DocLog::new(): no entries, and set_current_term(0).
doclog_new(fs) == doclog_set_current_term(fs, 0)
LogIds == {"a", "b"}
\* current_term() and voted_for() called on the instance l: File::open("term")
\* and File::open("voted_for"), the same paths for every instance.
observed_current_term(fs, l) == doclog_current_term(fs)
observed_voted_for(fs, l) == doclog_voted_for(fs)
NoCall == [name |-> "none", log |-> "", arg |-> <<>>, ret |-> None,
           before |-> [fs |-> [term |-> <<0>>, voted_for |-> <<0>>], entries |-> <<>>]]
\* Both instances constructed.
DocLogs ==
    [fs |-> doclog_new(doclog_new([term |-> <<>>, voted_for |-> <<>>])),
     entries |-> [l \in LogIds |-> <<>>],
     panic |-> "",
     call |-> NoCall]

\* ------------------------------------------------------ TransactionManager
TransactionNew ==
    [is_active |-> FALSE, session |-> None, commit_index |-> 0, last_applied |-> 0,
     follower_min_index |-> None, has_follower_min |-> FALSE, inflight |-> 0]
transaction_begin_state(session, commit_index, last_applied, has_min, min_index) ==
    [is_active |-> TRUE, session |-> session, commit_index |-> commit_index,
     last_applied |-> last_applied, follower_min_index |-> min_index,
     has_follower_min |-> has_min, inflight |-> 0]
transaction_compare(t, session) == t.is_active /\ t.session = session
transaction_count_up(t) == [t EXCEPT !.inflight = @ + 1]

\* -------------------------------------------------- role state (state.rs)
\* LeaderState::reinitialize: next_index = latest + 1 and match_index = 0
\* for every peer; the proposal FIFO is left as it is.
reinitialize(s, latest) ==
    [s EXCEPT !.next_index = [p \in s.peers |-> latest + 1],
              !.match_index = [p \in s.peers |-> 0]]
\* LeaderState::count_match_indexes: the peers whose match_index reaches
\* index, and the leader itself.
count_match_indexes(s, index) ==
    Cardinality({p \in s.peers : s.match_index[p] >= index}) + 1
set_leader(s, leader) == [s EXCEPT !.leader = leader]

\* ---------------------------------------------------------------- majority
\* A majority that forgets the server itself.
majority_without_self(s) == (Cardinality(s.peers) \div 2) + 1

\* (cluster_members >> 1) + 1, cluster_members = peers + 1.
majority(s) ==
    LET peers == Cardinality(s.peers)
        cluster_members == peers + 1
    IN  (cluster_members \div 2) + 1

\* ------------------------------------------------------------ StateMachine
\* The application state machine is the sequence of commands applied and not
\* reverted; revert(command) undoes the latest apply of that command.
RECURSIVE last_occurrence(_, _)
last_occurrence(sm, command) ==
    IF Len(sm) = 0 THEN 0
    ELSE IF sm[Len(sm)] = command THEN Len(sm)
    ELSE last_occurrence(SubSeq(sm, 1, Len(sm) - 1), command)
sm_apply(sm, command) == Append(sm, command)
sm_revert(sm, command) ==
    LET k == last_occurrence(sm, command)
    IN  IF k = 0 THEN sm ELSE SubSeq(sm, 1, k - 1) \o SubSeq(sm, k + 1, Len(sm))

\* --------------------------------------------------------------- Consensus
ConsensusNew(id, peers) ==
    [id |-> id, peers |-> peers,
     current_term |-> 0, voted_for |-> None, entries |-> <<>>,
     state_machine |-> <<>>,
     commit_index |-> 0, last_applied |-> 0,
     state |-> "Follower",
     next_index |-> [p \in peers |-> 1], match_index |-> [p \in peers |-> 0],
     proposals |-> <<>>,
     votes |-> {},
     leader |-> None, min_index |-> 0,
     transaction |-> TransactionNew,
     panic |-> "",
     \* history, read by no handler
     led |-> {}, applied_at |-> <<>>, committed |-> {}, begun |-> <<0, 0, 0>>]

is_leader(s) == s.state = "Leader"
is_follower(s) == s.state = "Follower"
is_candidate(s) == s.state = "Candidate"

\* apply_commits: hands every committed, unapplied, non-empty entry to the
\* state machine; results is the set of indices a result was recorded for.
RECURSIVE apply_commits_loop(_, _)
apply_commits_loop(s, results) ==
    IF s.last_applied < s.commit_index
    THEN LET index == s.last_applied + 1
         IN  IF index > Len(s.entries)
             THEN [s |-> Panic(s, "entry: index out of range"), results |-> results]
             ELSE LET entry == s.entries[index][2]
                      s1 == IF entry # Empty
                            THEN [s EXCEPT !.state_machine = sm_apply(@, entry)]
                            ELSE s
                      s2 == [s1 EXCEPT !.last_applied = index,
                                       !.applied_at = (index :> entry) @@ @]
                  IN  apply_commits_loop(s2, IF entry # Empty
                                             THEN results \cup {index} ELSE results)
    ELSE [s |-> s, results |-> results]
apply_commits(s) == apply_commits_loop(s, {})

\* The first loop of advance_commit_index, never raising commit_index.
advance_loop_stalled(s) == s

\* The first loop of advance_commit_index.
RECURSIVE advance_loop(_)
advance_loop(s) ==
    IF s.commit_index < latest_log_index(s)
       /\ count_match_indexes(s, s.commit_index + 1) >= majority(s)
    THEN advance_loop(
             [s EXCEPT !.commit_index = @ + 1,
                       !.committed = @ \cup {[index |-> s.commit_index + 1,
                                               entry |-> s.entries[s.commit_index + 1],
                                               term |-> s.current_term]}])
    ELSE s

\* The second loop of advance_commit_index: answer the proposals at the head
\* of the FIFO that are committed; a missing result aborts.
RECURSIVE respond_loop(_, _, _)
respond_loop(s, results, a) ==
    IF Len(s.proposals) = 0 THEN Ret(s, a)
    ELSE LET client == s.proposals[1][1]
             index == s.proposals[1][2]
         IN  IF index <= s.commit_index
             THEN IF index \notin results
                  THEN Ret(Panic(s, "advance_commit_index: no result"), a)
                  ELSE respond_loop(
                           [s EXCEPT !.proposals = Tail(@)], results,
                           push_client(a, client,
                               ClientResponse("success", <<index, s.entries[index][2]>>)))
             ELSE Ret(s, a)

advance_commit_index(s, a) ==
    IF ~is_leader(s) THEN Ret(Panic(s, "assert is_leader"), a)
    ELSE LET r == apply_commits(advance_loop(s))
         IN  IF r.s.panic # "" THEN Ret(r.s, a) ELSE respond_loop(r.s, r.results, a)

\* A step down that adopts the term and keeps the role.
transition_to_follower_keeping_role(s, term, leader, a) ==
    Ret(set_leader(set_current_term(s, term), leader),
        push_timeout([push_clear_timeouts(a) EXCEPT !.clear_peer_messages = TRUE],
                     ElectionTimer))

transition_to_follower(s, term, leader, a) ==
    Ret(set_leader([set_current_term(s, term) EXCEPT !.state = "Follower"], leader),
        push_timeout([push_clear_timeouts(a) EXCEPT !.clear_peer_messages = TRUE],
                     ElectionTimer))

RECURSIVE push_peers(_, _, _)
push_peers(a, peers, m) ==
    IF peers = {} THEN a
    ELSE LET p == CHOOSE q \in peers : \A r \in peers : q <= r
         IN  push_peers(push_peer(a, p, m), peers \ {p}, m)

\* transition_to_candidate that does not count the candidate's own vote.
transition_to_candidate_without_vote(s, a) ==
    LET s1 == set_voted_for(inc_current_term(s), s.id)
        s2 == [s1 EXCEPT !.state = "Candidate", !.votes = {}]
        m == RequestVoteRequestMsg(s2.current_term, latest_log_index(s2),
                                   latest_log_term(s2))
    IN  Ret(s2, [push_timeout(push_peers(a, s.peers, m), ElectionTimer)
                    EXCEPT !.clear_peer_messages = TRUE])

transition_to_candidate(s, a) ==
    LET s1 == set_voted_for(inc_current_term(s), s.id)
        s2 == [s1 EXCEPT !.state = "Candidate", !.votes = {s.id}]
        m == RequestVoteRequestMsg(s2.current_term, latest_log_index(s2),
                                   latest_log_term(s2))
    IN  Ret(s2, [push_timeout(push_peers(a, s.peers, m), ElectionTimer)
                    EXCEPT !.clear_peer_messages = TRUE])

\* The entries above commit_index, reverted on the state machine last first.
RECURSIVE revert_all(_, _)
revert_all(sm, es) ==
    IF Len(es) = 0 THEN sm
    ELSE revert_all(sm_revert(sm, es[Len(es)][2]), SubSeq(es, 1, Len(es) - 1))
revert_entries(s, commit_index) ==
    IF commit_index > Len(s.entries)
    THEN Panic(s, "rollback: index out of range")
    ELSE [s EXCEPT !.state_machine = revert_all(@, rollback_entries(s, commit_index))]

\* A transition to Leader that leaves an active transaction as it is.
transition_to_leader_keeping_transaction(s, a) ==
    LET latest == latest_log_index(s)
        s1 == [reinitialize([s EXCEPT !.state = "Leader"], latest)
                  EXCEPT !.led = @ \cup {s.current_term}]
        m == AppendEntriesRequestMsg(s.current_term, latest, latest_log_term(s), <<>>,
                                     s.commit_index)
    IN  Ret(s1, [push_clear_timeouts(push_peers(a, s.peers, m))
                    EXCEPT !.clear_peer_messages = TRUE])

transition_to_leader(s, a) ==
    LET latest == latest_log_index(s)
        s1 == [reinitialize([s EXCEPT !.state = "Leader"], latest)
                  EXCEPT !.led = @ \cup {s.current_term}]
        m == AppendEntriesRequestMsg(s.current_term, latest, latest_log_term(s), <<>>,
                                     s.commit_index)
        a1 == push_peers(a, s.peers, m)
    IN  IF s1.transaction.is_active
        THEN LET a2 == push_broadcast(a1,
                           TransactionMsg("TransactionRollback", s1.transaction.session))
                 s2 == [s1 EXCEPT !.transaction = TransactionNew,
                                  !.commit_index = s1.transaction.commit_index,
                                  !.last_applied = s1.transaction.last_applied]
                 s3 == revert_entries(s2, s2.commit_index)
             IN  IF s3.panic # "" THEN Ret(s3, a2)
                 ELSE Ret(s3, [push_clear_timeouts(a2) EXCEPT !.clear_peer_messages = TRUE])
        ELSE Ret(s1, [push_clear_timeouts(a1) EXCEPT !.clear_peer_messages = TRUE])

\* A guard that takes no request for stale.
never_stale(s, new_latest_log_index) == FALSE

\* new_latest_log_index < follower_state.min_index: the request is older than
\* one already accepted.
stale_entry(s, new_latest_log_index) == new_latest_log_index < s.min_index

\* The Follower arm of append_entries_request.
append_entries_follower(s, from, m, a) ==
    LET s1 == IF s.current_term < m.term
              THEN set_leader(set_current_term(s, m.term), from) ELSE s
        prev == m.prev_log_index
        finish(s9, message) ==
            Ret(s9, push_peer(push_timeout(push_clear_timeouts(a), ElectionTimer),
                              from, message))
        inconsistent ==
            AppendEntriesResponseMsg(s1.current_term, "InconsistentPrevEntry", prev)
    IN  IF latest_log_index(s1) < prev THEN finish(s1, inconsistent)
        ELSE LET existing_term == IF prev = 0 THEN 0 ELSE s1.entries[prev][1]
                 new_latest == prev + Len(m.entries)
             IN  IF existing_term # m.prev_log_term THEN finish(s1, inconsistent)
                 ELSE IF stale_entry(s1, new_latest) THEN Ret(s1, a)
                 ELSE LET s2 == append_entries(s1, prev + 1, m.entries)
                          s3 == [s2 EXCEPT !.min_index = new_latest,
                                           !.commit_index = Min(m.leader_commit, new_latest)]
                          r == apply_commits(s3)
                      IN  IF r.s.panic # "" THEN Ret(r.s, a)
                          ELSE finish(r.s,
                                   AppendEntriesResponseMsg(r.s.current_term, "Success",
                                                            latest_log_index(r.s)))

\* append_entries_request without the comparison of the leader's term.
append_entries_request_unchecked(s, from, m, a) ==
    IF is_follower(s) THEN append_entries_follower(s, from, m, a)
    ELSE IF is_leader(s) /\ m.term = s.current_term
    THEN Ret(Panic(s, "peer leader with matching term"), a)
    ELSE LET r == transition_to_follower(s, m.term, from, a)
         IN  append_entries_follower(r.s, from, m, r.a)

append_entries_request(s, from, m, a) ==
    IF m.term < s.current_term
    THEN Ret(s, push_peer(a, from,
                          AppendEntriesResponseMsg(s.current_term, "StaleTerm", 0)))
    ELSE IF is_follower(s) THEN append_entries_follower(s, from, m, a)
    ELSE IF is_leader(s) /\ m.term = s.current_term
    THEN Ret(Panic(s, "peer leader with matching term"), a)
    ELSE LET r == transition_to_follower(s, m.term, from, a)
         IN  append_entries_follower(r.s, from, m, r.a)

append_entries_response(s, from, m, a) ==
    LET local_latest == latest_log_index(s)
        tail(s9, a9) ==
            LET next == s9.next_index[from]
            IN  IF next <= local_latest
                THEN LET prev == next - 1
                         prev_term == IF prev = 0 THEN 0 ELSE s9.entries[prev][1]
                         msg == AppendEntriesRequestMsg(s9.current_term, prev, prev_term,
                                    log_entries(s9, next, local_latest + 1),
                                    s9.commit_index)
                     IN  Ret([s9 EXCEPT !.next_index[from] = local_latest + 1],
                             push_peer(a9, from, msg))
                ELSE Ret(s9, push_timeout(a9, HeartbeatTimer(from)))
    IN  IF s.current_term < m.term THEN transition_to_follower(s, m.term, from, a)
        ELSE IF s.current_term > m.term THEN Ret(s, a)
        ELSE IF m.which = "StaleTerm" THEN Ret(s, a)
        ELSE IF ~is_leader(s) THEN Ret(Panic(s, "assert is_leader"), a)
        ELSE IF m.which = "Success"
        THEN LET r == advance_commit_index([s EXCEPT !.match_index[from] = m.index], a)
             IN  IF r.s.panic # "" THEN r ELSE tail(r.s, r.a)
        ELSE tail([s EXCEPT !.next_index[from] = m.index], a)

\* A vote granted whatever vote was cast before.
vote_regardless(s, candidate) == [s |-> set_voted_for(s, candidate), which |-> "Granted"]

\* match self.log.voted_for(): the vote is cast once per term.
vote(s, candidate) ==
    IF s.voted_for = None THEN [s |-> set_voted_for(s, candidate), which |-> "Granted"]
    ELSE IF s.voted_for = candidate THEN [s |-> s, which |-> "Granted"]
    ELSE [s |-> s, which |-> "AlreadyVoted"]

request_vote_request(s, candidate, m, a) ==
    LET local_term == s.current_term
        r == IF m.term > local_term
             THEN transition_to_follower(s, m.term, candidate, a) ELSE Ret(s, a)
        new_local_term == IF m.term > local_term THEN m.term ELSE local_term
        s1 == r.s
        reply(s9, which) ==
            Ret(s9, push_peer(r.a, candidate, RequestVoteResponseMsg(new_local_term, which)))
    IN  IF m.term < local_term THEN reply(s1, "StaleTerm")
        ELSE IF m.last_log_term < latest_log_term(s1)
                \/ m.last_log_index < latest_log_index(s1)
        THEN reply(s1, "InconsistentLog")
        ELSE reply(vote(s1, candidate).s, vote(s1, candidate).which)

request_vote_response(s, from, m, a) ==
    IF s.current_term < m.term THEN transition_to_follower(s, m.term, from, a)
    ELSE IF s.current_term > m.term THEN Ret(s, a)
    ELSE IF is_candidate(s) /\ m.which = "Granted"
    THEN LET s1 == [s EXCEPT !.votes = @ \cup {from}]
         IN  IF Cardinality(s1.votes) >= majority(s) THEN transition_to_leader(s1, a)
             ELSE Ret(s1, a)
    ELSE Ret(s, a)

\* &self.peers[&leader.unwrap()]: aborts when there is no leader hint.
not_leader_reply(s, from, a) ==
    IF s.leader = None \/ s.leader \notin s.peers
    THEN Ret(Panic(s, "unwrap on a None leader"), a)
    ELSE Ret(s, push_client(a, from, ClientResponse("not_leader", s.leader)))

RECURSIVE send_to_caught_up(_, _, _, _, _)
send_to_caught_up(s, a, peers, log_index, m) ==
    IF peers = {} THEN Ret(s, a)
    ELSE LET p == CHOOSE q \in peers : \A r \in peers : q <= r
         IN  IF s.next_index[p] = log_index
             THEN send_to_caught_up([s EXCEPT !.next_index[p] = log_index + 1],
                                    push_peer(a, p, m), peers \ {p}, log_index, m)
             ELSE send_to_caught_up(s, a, peers \ {p}, log_index, m)

proposal_request(s, from, entry, a) ==
    IF is_candidate(s) \/ (is_follower(s) /\ s.leader = None)
    THEN Ret(s, push_client(a, from, ClientResponse("unknown_leader", None)))
    ELSE IF is_follower(s) THEN not_leader_reply(s, from, a)
    ELSE LET prev_log_index == latest_log_index(s)
             prev_log_term == latest_log_term(s)
             term == s.current_term
             log_index == prev_log_index + 1
             s1 == append_entries(s, log_index, <<<<term, entry>>>>)
             s2 == [s1 EXCEPT !.proposals = Append(@, <<from, log_index>>)]
         IN  IF s.peers = {} THEN advance_commit_index(s2, a)
             ELSE send_to_caught_up(s2, a, s.peers, log_index,
                      AppendEntriesRequestMsg(term, prev_log_index, prev_log_term,
                                              <<<<term, entry>>>>, s.commit_index))

\* Peer TransactionBegin / TransactionCommit / TransactionRollback.
transaction_begin(s, from, session, a) ==
    IF ~is_leader(s) /\ ~s.transaction.is_active
    THEN Ret([s EXCEPT !.transaction =
                  transaction_begin_state(session, s.commit_index, s.last_applied,
                                          TRUE, s.min_index)], a)
    ELSE Ret(s, a)

transaction_commit(s, from, session, a) ==
    IF s.transaction.is_active
    THEN IF s.transaction.session # session
         THEN Ret(Panic(s, "assert_eq session"), a)
         ELSE Ret([s EXCEPT !.transaction = TransactionNew], a)
    ELSE Ret(s, a)

transaction_rollback(s, from, session, a) ==
    IF s.transaction.is_active
    THEN LET t == s.transaction
             s0 == [s EXCEPT !.transaction = TransactionNew]
         IN  IF ~t.has_follower_min THEN Ret(Panic(s0, "unwrap on a None min_index"), a)
             ELSE LET s1 == [s0 EXCEPT !.min_index = t.follower_min_index,
                                       !.commit_index = t.commit_index,
                                       !.last_applied = t.last_applied]
                      s2 == revert_entries(s1, t.commit_index)
                  IN  IF s2.panic # "" THEN Ret(s2, a)
                      ELSE Ret(truncate(s2, t.commit_index), a)
    ELSE Ret(s, a)

\* Client TransactionBegin / TransactionCommit / TransactionRollback.
client_transaction_begin(s, from, session, a) ==
    IF is_leader(s)
    THEN IF ~s.transaction.is_active
         THEN Ret([s EXCEPT !.transaction =
                       transaction_begin_state(session, s.commit_index, s.last_applied,
                                               FALSE, None),
                            !.begun = <<s.commit_index, s.last_applied,
                                        latest_log_index(s)>>],
                  push_client(push_broadcast(a, TransactionMsg("TransactionBegin", session)),
                              from, ClientResponse("transaction_success", session)))
         ELSE Ret(s, push_client(a, from, ClientResponse("transaction_failure", "NotActive")))
    ELSE not_leader_reply(s, from, a)

\* A commit that does not look whether a transaction is active.
client_transaction_commit_unchecked(s, from, a) ==
    IF is_leader(s)
    THEN Ret([s EXCEPT !.transaction = TransactionNew],
             push_client(push_broadcast(a, TransactionMsg("TransactionCommit",
                                                          s.transaction.session)),
                         from, ClientResponse("transaction_success", None)))
    ELSE not_leader_reply(s, from, a)

client_transaction_commit(s, from, a) ==
    IF is_leader(s)
    THEN IF s.transaction.is_active
         THEN Ret([s EXCEPT !.transaction = TransactionNew],
                  push_client(push_broadcast(a, TransactionMsg("TransactionCommit",
                                                               s.transaction.session)),
                              from, ClientResponse("transaction_success", None)))
         ELSE Ret(s, push_client(a, from,
                                 ClientResponse("transaction_failure", "AlreadyActive")))
    ELSE not_leader_reply(s, from, a)

client_transaction_rollback(s, from, a) ==
    IF is_leader(s)
    THEN IF s.transaction.is_active
         THEN LET t == s.transaction
                  a1 == push_broadcast(a, TransactionMsg("TransactionRollback", t.session))
                  s1 == [s EXCEPT !.transaction = TransactionNew,
                                  !.commit_index = t.commit_index,
                                  !.last_applied = t.last_applied]
              IN  IF t.commit_index > Len(s.entries)
                  THEN Ret(Panic(s1, "Transaction rollback failed"), a1)
                  ELSE LET s2 == [s1 EXCEPT !.next_index =
                                      [p \in s.peers |-> t.commit_index + 1]]
                           s3 == truncate(revert_entries(s2, t.commit_index),
                                          t.commit_index)
                       IN  Ret(s3, push_client(a1, from,
                                       ClientResponse("transaction_success", None)))
         ELSE Ret(s, push_client(a, from,
                                 ClientResponse("transaction_failure", "AlreadyActive")))
    ELSE not_leader_reply(s, from, a)

\* The Proposal arm without the transaction queue.
client_proposal_unqueued(s, from, session, entry, a) == proposal_request(s, from, entry, a)

\* apply_client_message, the Proposal arm.
client_proposal(s, from, session, entry, a) ==
    IF is_leader(s) /\ s.transaction.is_active
       /\ ~transaction_compare(s.transaction, session)
    THEN Ret([s EXCEPT !.transaction = transaction_count_up(@)],
             [a EXCEPT !.transaction_queue =
                  Append(@, <<from, [session |-> session, entry |-> entry]>>)])
    ELSE proposal_request(s, from, entry, a)

\* handle_queue without the look at the transaction.
handle_queue_unguarded(s, pending, a) ==
    IF Len(pending) > 0
    THEN LET client == pending[Len(pending)][1]
             message == pending[Len(pending)][2]
             r == client_proposal(s, client, message.session, message.entry, a)
         IN  [s |-> r.s, a |-> r.a, pending |-> SubSeq(pending, 1, Len(pending) - 1)]
    ELSE [s |-> s, a |-> a, pending |-> pending]

\* handle_queue: with no transaction active, requests_in_queue.pop() takes the
\* request pushed last and submits it as a client message.
handle_queue(s, pending, a) ==
    IF ~s.transaction.is_active /\ Len(pending) > 0
    THEN LET client == pending[Len(pending)][1]
             message == pending[Len(pending)][2]
             r == client_proposal(s, client, message.session, message.entry, a)
         IN  [s |-> r.s, a |-> r.a, pending |-> SubSeq(pending, 1, Len(pending) - 1)]
    ELSE [s |-> s, a |-> a, pending |-> pending]

heartbeat_timeout(s, peer, a) ==
    IF ~is_leader(s) THEN Ret(Panic(s, "assert is_leader"), a)
    ELSE Ret(s, push_peer(a, peer,
                    AppendEntriesRequestMsg(s.current_term, latest_log_index(s),
                                            latest_log_term(s), <<>>, s.commit_index)))

\* election_timeout without the solitary special case.
election_timeout_contested(s, a) ==
    IF is_leader(s) THEN Ret(Panic(s, "assert !is_leader"), a)
    ELSE transition_to_candidate(s, a)

election_timeout(s, a) ==
    IF is_leader(s) THEN Ret(Panic(s, "assert !is_leader"), a)
    ELSE IF s.peers = {}
    THEN IF ~is_follower(s) \/ s.voted_for # None
         THEN Ret(Panic(s, "assert solitary follower without vote"), a)
         ELSE LET s1 == set_voted_for(inc_current_term(s), s.id)
              IN  Ret([reinitialize([s1 EXCEPT !.state = "Leader"], latest_log_index(s1))
                          EXCEPT !.led = @ \cup {s1.current_term}], a)
    ELSE transition_to_candidate(s, a)

apply_peer_message(s, from, m, a) ==
    CASE m.type = "AppendEntriesRequest" -> append_entries_request(s, from, m, a)
      [] m.type = "AppendEntriesResponse" -> append_entries_response(s, from, m, a)
      [] m.type = "RequestVoteRequest" -> request_vote_request(s, from, m, a)
      [] m.type = "RequestVoteResponse" -> request_vote_response(s, from, m, a)
      [] m.type = "TransactionBegin" -> transaction_begin(s, from, m.session, a)
      [] m.type = "TransactionCommit" -> transaction_commit(s, from, m.session, a)
      [] m.type = "TransactionRollback" -> transaction_rollback(s, from, m.session, a)

\* ------------------------------------------------------------ the machine
VARIABLES
    cons,       \* ServerId -> Consensus
    net,        \* <<from, to>> -> the messages in flight on that connection, in order
    timers,     \* ServerId -> the peers a HeartbeatTimeout is armed for
    actions,    \* the Actions filled by the latest event
    event,      \* the latest event: kind, server, sender, message, the instance before
    requests,   \* client requests handled so far: <<proposals, transaction requests>>
    quorum_a, quorum_b, \* two sets of servers (quorum specification)
    harness,    \* the test harness: apply_actions' queue, the Actions a test holds
                \* back, the stimuli applied so far, the client messages returned
    requests_in_queue,  \* ServerId -> the client requests pending for handle_queue
    doclog      \* the DocLogs of one process: the files "term" and "voted_for" of
                \* its working directory, each instance's entries, the latest call

vars == <<cons, net, timers, actions, event, requests, quorum_a, quorum_b,
          harness, requests_in_queue, doclog>>

NoMessage == [type |-> "none"]
NoEvent == [kind |-> "none", server |-> None, from |-> None, msg |-> NoMessage,
            pre |-> ConsensusNew(None, {})]
Event(kind, s, from, m) ==
    [kind |-> kind, server |-> s.id, from |-> from, msg |-> m, pre |-> s]

HarnessNew == [queue |-> <<>>, held |-> <<>>, script |-> <<>>, client_messages |-> <<>>]

Channels(servers) == {ch \in servers \X servers : ch[1] # ch[2]}

\* new_cluster(size): every server has every other server as a peer.
new_cluster(servers) == [i \in servers |-> ConsensusNew(i, servers \ {i})]

\* What the dispatcher puts on the connection to `to`: the peer messages
\* addressed to it, in order, then every broadcast message.
RECURSIVE addressed_to(_, _)
addressed_to(pm, to) ==
    IF Len(pm) = 0 THEN <<>>
    ELSE IF pm[1][1] = to THEN <<pm[1][2]>> \o addressed_to(Tail(pm), to)
    ELSE addressed_to(Tail(pm), to)
outbound(a, to) == addressed_to(a.peer_messages, to) \o a.peer_messages_broadcast

sent(i, a) ==
    [ch \in DOMAIN net |-> IF ch[1] = i THEN net[ch] \o outbound(a, ch[2]) ELSE net[ch]]
armed(i, a) ==
    (IF Len(a.clear_timeouts) > 0 THEN {} ELSE timers[i])
        \cup {a.timeouts[k].peer : k \in {k \in 1..Len(a.timeouts) :
                                            a.timeouts[k].kind = "Heartbeat"}}
fits(n) == \A ch \in DOMAIN n : Len(n[ch]) <= MaxInFlight

\* One event handled to completion on server i with outcome r, then the
\* dispatch of its Actions.
Handled(i, r, ev, n) ==
    /\ fits(n)
    /\ cons' = [cons EXCEPT ![i] = r.s]
    /\ net' = n
    /\ timers' = [timers EXCEPT ![i] = armed(i, r.a)]
    /\ actions' = r.a
    /\ event' = ev
    /\ UNCHANGED <<quorum_a, quorum_b, harness, requests_in_queue, doclog>>

Alive(i) == cons[i].panic = ""

\* The state after construction of a cluster of the given servers.
Constructed(servers) ==
    /\ cons = new_cluster(servers)
    /\ net = [ch \in Channels(servers) |-> <<>>]
    /\ timers = [i \in servers |-> {}]
    /\ actions = ActionsNew
    /\ event = NoEvent
    /\ requests = <<0, 0>>
    /\ quorum_a = {}
    /\ quorum_b = {}
    /\ harness = HarnessNew
    /\ requests_in_queue = [i \in servers |-> <<>>]
    /\ doclog = DocLogs

Server == DOMAIN cons

Init == Constructed(Pair)

\* Server j handles the oldest message in flight from i.
Deliver(i, j) ==
    /\ Alive(j)
    /\ Len(net[<<i, j>>]) > 0
    /\ LET m == Head(net[<<i, j>>])
           r == apply_peer_message(cons[j], i, m, ActionsNew)
           n == [net EXCEPT ![<<i, j>>] = Tail(@)]
           n2 == [ch \in DOMAIN n |->
                     IF ch[1] = j THEN n[ch] \o outbound(r.a, ch[2]) ELSE n[ch]]
       IN  Handled(j, r, Event("PeerMessage", cons[j], i, m), n2)
    /\ UNCHANGED requests

ElectionTimeout(i) ==
    /\ Alive(i)
    /\ ~is_leader(cons[i])
    /\ cons[i].current_term < MaxTerm
    /\ LET r == election_timeout(cons[i], ActionsNew)
       IN  Handled(i, r, Event("ElectionTimeout", cons[i], None, NoMessage), sent(i, r.a))
    /\ UNCHANGED requests

HeartbeatTimeout(i, p) ==
    /\ Alive(i)
    /\ p \in timers[i]
    /\ LET r == heartbeat_timeout(cons[i], p, ActionsNew)
       IN  /\ fits(sent(i, r.a))
           /\ cons' = [cons EXCEPT ![i] = r.s]
           /\ net' = sent(i, r.a)
           /\ timers' = [timers EXCEPT ![i] = armed(i, r.a) \ {p}]
           /\ actions' = r.a
           /\ event' = Event("HeartbeatTimeout", cons[i], p, NoMessage)
    /\ UNCHANGED <<requests, quorum_a, quorum_b, harness, requests_in_queue, doclog>>

ClientRequest(i, r, m) ==
    /\ IF m.type = "Proposal"
       THEN requests[1] < MaxProposals /\ requests' = <<requests[1] + 1, requests[2]>>
       ELSE requests[2] < MaxTransactionRequests
            /\ requests' = <<requests[1], requests[2] + 1>>
    /\ Handled(i, r, Event("ClientRequest", cons[i], m.client, m), sent(i, r.a))

ClientProposal(i, c, session, entry) ==
    /\ Alive(i)
    /\ is_leader(cons[i])
    /\ Len(cons[i].entries) < MaxLog
    /\ ClientRequest(i, client_proposal(cons[i], c, session, entry, ActionsNew),
                     [type |-> "Proposal", client |-> c, session |-> session,
                      entry |-> entry])

ClientTransactionBegin(i, c, session) ==
    /\ Alive(i)
    /\ is_leader(cons[i])
    /\ ClientRequest(i, client_transaction_begin(cons[i], c, session, ActionsNew),
                     [type |-> "TransactionBegin", client |-> c, session |-> session])

ClientTransactionCommit(i, c) ==
    /\ Alive(i)
    /\ is_leader(cons[i])
    /\ ClientRequest(i, client_transaction_commit(cons[i], c, ActionsNew),
                     [type |-> "TransactionCommit", client |-> c])

ClientTransactionRollback(i, c) ==
    /\ Alive(i)
    /\ is_leader(cons[i])
    /\ ClientRequest(i, client_transaction_rollback(cons[i], c, ActionsNew),
                     [type |-> "TransactionRollback", client |-> c])

Next ==
    \/ \E i \in Server, j \in Server : i # j /\ Deliver(i, j)
    \/ \E i \in Server : ElectionTimeout(i)
    \/ \E i \in Server, p \in Server : HeartbeatTimeout(i, p)
    \/ \E i \in Server, c \in Client, x \in Session, e \in {Empty, requests[1] + 1} :
           ClientProposal(i, c, x, e)
    \/ \E i \in Server, c \in Client, x \in Session : ClientTransactionBegin(i, c, x)
    \/ \E i \in Server, c \in Client : ClientTransactionCommit(i, c)
    \/ \E i \in Server, c \in Client : ClientTransactionRollback(i, c)

Spec == Init /\ [][Next]_vars

\* A cluster of three servers that no client talks to: elections and
\* heartbeats only.
InitElection == Constructed(Trio)
NextElection ==
    \/ \E i \in Server, j \in Server : i # j /\ Deliver(i, j)
    \/ \E i \in Server : ElectionTimeout(i)
    \/ \E i \in Server, p \in Server : HeartbeatTimeout(i, p)
SpecElection == InitElection /\ [][NextElection]_vars

\* Clusters of every size up to MaxClusterSize, and on each two sets of
\* servers that a server counts as a majority: the voters of an election
\* (count_votes() >= majority) and the servers holding an entry
\* (count_match_indexes(index) >= majority).
InitMajority == \E n \in 1..MaxClusterSize : Constructed(1..n)
FormElectionQuorum(i, q) ==
    /\ quorum_a = {}
    /\ i \in q
    /\ Cardinality(q) = majority(cons[i])
    /\ quorum_a' = q
    /\ UNCHANGED <<cons, net, timers, actions, event, requests, quorum_b,
                   harness, requests_in_queue, doclog>>
FormCommitQuorum(i, q) ==
    /\ quorum_b = {}
    /\ i \in q
    /\ Cardinality(q) = majority(cons[i])
    /\ quorum_b' = q
    /\ UNCHANGED <<cons, net, timers, actions, event, requests, quorum_a,
                   harness, requests_in_queue, doclog>>
NextMajority ==
    \/ quorum_a = {} /\ \E q \in SUBSET Server : \E i \in q : FormElectionQuorum(i, q)
    \/ quorum_b = {} /\ \E q \in SUBSET Server : \E i \in q : FormCommitQuorum(i, q)
SpecMajority == InitMajority /\ [][NextMajority]_vars

\* test_append_reorder: AppendEntriesRequests handed straight to one follower
\* of new_cluster(2), in any order and any number; its replies go nowhere.
Seqs(S, n) == UNION {[1..k -> S] : k \in 0..n}
AppendEntriesRequests ==
    UNION {{AppendEntriesRequestMsg(term, prev_index, prev_term, es, commit) :
               prev_index \in 0..MaxLog, prev_term \in 0..MaxTerm,
               es \in Seqs({term} \X Command, MaxLog), commit \in {0, MaxLog}} :
           term \in 1..MaxTerm}
InjectAppendEntries(i, from, m) ==
    /\ Alive(i)
    /\ m.prev_log_index + Len(m.entries) <= MaxLog
    /\ LET r == apply_peer_message(cons[i], from, m, ActionsNew)
       IN  /\ cons' = [cons EXCEPT ![i] = r.s]
           /\ actions' = r.a
           /\ event' = Event("PeerMessage", cons[i], from, m)
    /\ UNCHANGED <<net, timers, requests, quorum_a, quorum_b, harness, requests_in_queue, doclog>>
InitReorder == Constructed(Pair)
NextReorder ==
    \E i \in Server, from \in Server, m \in AppendEntriesRequests :
        i < from /\ InjectAppendEntries(i, from, m)
SpecReorder == InitReorder /\ [][NextReorder]_vars

\* tests::apply_actions and the tests built on it: a stimulus (a timeout or a
\* client proposal) is applied to one server of new_cluster(n) and its peer
\* messages enter one queue; the queue is drained front first, each message
\* applied to its addressee and the replies pushed at the back; the client
\* messages are collected.  test_slow_heartbeat holds the Actions of a
\* heartbeat back and applies them after a later stimulus has been drained.
queued(from, a) ==
    [k \in 1..Len(a.peer_messages) |->
        <<from, a.peer_messages[k][1], a.peer_messages[k][2]>>]
Stimulus(kind, i, peer, hold, entry) ==
    [kind |-> kind, server |-> i, peer |-> peer, hold |-> hold, entry |-> entry]
Applied(i, r, ev, st, hold, queue) ==
    /\ cons' = [cons EXCEPT ![i] = r.s]
    /\ actions' = r.a
    /\ event' = ev
    /\ harness' = [queue |-> IF hold THEN queue ELSE queue \o queued(i, r.a),
                   held |-> IF hold THEN queued(i, r.a) ELSE harness.held,
                   script |-> harness.script \o st,
                   client_messages |-> harness.client_messages \o r.a.client_messages]
    /\ UNCHANGED <<net, timers, requests, quorum_a, quorum_b, requests_in_queue, doclog>>
Quiet == Len(harness.queue) = 0
ScenarioElectionTimeout(i) ==
    /\ Quiet /\ Len(harness.script) < MaxStimuli
    /\ Alive(i) /\ ~is_leader(cons[i])
    /\ cons[i].current_term < MaxTerm
    /\ Applied(i, election_timeout(cons[i], ActionsNew),
               Event("ElectionTimeout", cons[i], None, NoMessage),
               <<Stimulus("ElectionTimeout", i, None, FALSE, Empty)>>, FALSE, <<>>)
ScenarioHeartbeatTimeout(i, p, hold) ==
    /\ Quiet /\ Len(harness.script) < MaxStimuli
    /\ Alive(i) /\ is_leader(cons[i])
    /\ hold => Len(harness.held) = 0
    /\ Applied(i, heartbeat_timeout(cons[i], p, ActionsNew),
               Event("HeartbeatTimeout", cons[i], p, NoMessage),
               <<Stimulus("HeartbeatTimeout", i, p, hold, Empty)>>, hold, <<>>)
ScenarioProposal(i, c, session, entry) ==
    /\ Quiet /\ Len(harness.script) < MaxStimuli
    /\ Alive(i) /\ is_leader(cons[i])
    /\ Len(cons[i].entries) < MaxLog
    /\ Applied(i, client_proposal(cons[i], c, session, entry, ActionsNew),
               Event("ClientRequest", cons[i], c,
                     [type |-> "Proposal", client |-> c, session |-> session,
                      entry |-> entry]),
               <<Stimulus("Proposal", i, None, FALSE, entry)>>, FALSE, <<>>)
\* apply_actions called with the Actions held back.
Release ==
    /\ Quiet /\ Len(harness.held) > 0
    /\ harness' = [harness EXCEPT !.queue = harness.held, !.held = <<>>]
    /\ UNCHANGED <<cons, net, timers, actions, event, requests, quorum_a, quorum_b,
                   requests_in_queue, doclog>>
\* One turn of apply_actions' loop.
Drain ==
    /\ ~Quiet
    /\ LET from == harness.queue[1][1]
           to == harness.queue[1][2]
           m == harness.queue[1][3]
       IN  /\ Alive(to)
           /\ Applied(to, apply_peer_message(cons[to], from, m, ActionsNew),
                      Event("PeerMessage", cons[to], from, m), <<>>, FALSE,
                      Tail(harness.queue))
InitScenario == \E n \in 1..MaxScenarioServers : Constructed(1..n)
NextScenario ==
    \/ \E i \in Server : ScenarioElectionTimeout(i)
    \/ \E i \in Server : \E p \in cons[i].peers : \E hold \in BOOLEAN :
           ScenarioHeartbeatTimeout(i, p, hold)
    \/ \E i \in Server, c \in Client, entry \in {Empty} \cup Command :
           ScenarioProposal(i, c, None, entry)
    \/ Release
    \/ Drain
SpecScenario == InitScenario /\ [][NextScenario]_vars

\* request_vote_request as a handler: RequestVoteRequests from two candidates
\* and AppendEntriesRequests that build the voter's log, handed straight to
\* one server of new_cluster(3); its replies go nowhere.
VoteLogRequests ==
    UNION {{AppendEntriesRequestMsg(term, 0, 0, es, 0) :
               es \in Seqs({term} \X Command, MaxLog)} : term \in 1..MaxTerm}
RequestVoteRequests ==
    {m \in {RequestVoteRequestMsg(term, last_index, last_term) :
               term \in 1..MaxTerm, last_index \in 0..MaxLog, last_term \in 0..MaxTerm} :
        /\ (m.last_log_index = 0) <=> (m.last_log_term = 0)
        /\ m.last_log_term <= m.term}
InjectRequestVote(i, from, m) ==
    /\ Alive(i)
    /\ LET r == apply_peer_message(cons[i], from, m, ActionsNew)
       IN  /\ cons' = [cons EXCEPT ![i] = r.s]
           /\ actions' = r.a
           /\ event' = Event("PeerMessage", cons[i], from, m)
    /\ UNCHANGED <<net, timers, requests, quorum_a, quorum_b, harness, requests_in_queue, doclog>>
InitVote == Constructed(Trio)
NextVote ==
    \E i \in Server, from \in Server :
        /\ \A j \in Server : i <= j
        /\ from # i
        /\ \/ \E m \in VoteLogRequests : InjectAppendEntries(i, from, m)
           \/ \E m \in RequestVoteRequests : InjectRequestVote(i, from, m)
SpecVote == InitVote /\ [][NextVote]_vars

\* A solitary server and its client: proposals and transaction requests
\* handled one at a time; after every event the requests the event pushed
\* into Actions.transaction_queue are pushed, in order, onto the server's
\* pending list, and handle_queue is called between events: the next client
\* request is handled once handle_queue has nothing it could re-admit.
Solo == {1}
Settled(i) == Len(requests_in_queue[i]) = 0 \/ cons[i].transaction.is_active
Submitted(session, entry) == [kind |-> "Proposal", session |-> session, entry |-> entry]
Passed(i, r, ev, pending, st) ==
    /\ cons' = [cons EXCEPT ![i] = r.s]
    /\ actions' = r.a
    /\ event' = ev
    /\ harness' = [harness EXCEPT !.script = @ \o st,
                                  !.client_messages = @ \o r.a.client_messages]
    /\ requests_in_queue' = [requests_in_queue EXCEPT ![i] = pending \o r.a.transaction_queue]
    /\ UNCHANGED <<net, timers, quorum_a, quorum_b, doclog>>
QueueElectionTimeout(i) ==
    /\ Alive(i) /\ ~is_leader(cons[i])
    /\ cons[i].current_term < MaxTerm
    /\ Passed(i, election_timeout(cons[i], ActionsNew),
              Event("ElectionTimeout", cons[i], None, NoMessage),
              requests_in_queue[i], <<>>)
    /\ UNCHANGED requests
QueueProposal(i, c, session, entry) ==
    /\ Alive(i) /\ is_leader(cons[i]) /\ Settled(i)
    /\ requests[1] < MaxProposals
    /\ requests' = <<requests[1] + 1, requests[2]>>
    /\ Passed(i, client_proposal(cons[i], c, session, entry, ActionsNew),
              Event("ClientRequest", cons[i], c,
                    [type |-> "Proposal", client |-> c, session |-> session,
                     entry |-> entry]),
              requests_in_queue[i], <<Submitted(session, entry)>>)
QueueTransaction(i, c, r, m) ==
    /\ Alive(i) /\ is_leader(cons[i]) /\ Settled(i)
    /\ requests[2] < MaxTransactionRequests
    /\ requests' = <<requests[1], requests[2] + 1>>
    /\ Passed(i, r, Event("ClientRequest", cons[i], c, m), requests_in_queue[i], <<>>)
HandleQueue(i) ==
    /\ Alive(i)
    /\ Len(requests_in_queue[i]) > 0
    /\ LET r == handle_queue(cons[i], requests_in_queue[i], ActionsNew)
       IN  Passed(i, r, Event("HandleQueue", cons[i], None, NoMessage), r.pending, <<>>)
    /\ UNCHANGED requests
InitQueue == Constructed(Solo)
NextQueue ==
    \E i \in Server, c \in Client :
        \/ QueueElectionTimeout(i)
        \/ \E x \in Session : QueueProposal(i, c, x, requests[1] + 1)
        \/ \E x \in Session :
               QueueTransaction(i, c, client_transaction_begin(cons[i], c, x, ActionsNew),
                                [type |-> "TransactionBegin", client |-> c, session |-> x])
        \/ QueueTransaction(i, c, client_transaction_commit(cons[i], c, ActionsNew),
                            [type |-> "TransactionCommit", client |-> c])
        \/ QueueTransaction(i, c, client_transaction_rollback(cons[i], c, ActionsNew),
                            [type |-> "TransactionRollback", client |-> c])
        \/ HandleQueue(i)
SpecQueue == InitQueue /\ [][NextQueue]_vars

\* Clients that talk to servers that are not Leader: new_cluster(2) with its
\* elections and heartbeats, and every kind of client request handled by a
\* Follower or a Candidate.
StrayProposal(i, c, session, entry) ==
    /\ Alive(i) /\ ~is_leader(cons[i])
    /\ ClientRequest(i, client_proposal(cons[i], c, session, entry, ActionsNew),
                     [type |-> "Proposal", client |-> c, session |-> session,
                      entry |-> entry])
StrayTransactionBegin(i, c, session) ==
    /\ Alive(i) /\ ~is_leader(cons[i])
    /\ ClientRequest(i, client_transaction_begin(cons[i], c, session, ActionsNew),
                     [type |-> "TransactionBegin", client |-> c, session |-> session])
StrayTransactionCommit(i, c) ==
    /\ Alive(i) /\ ~is_leader(cons[i])
    /\ ClientRequest(i, client_transaction_commit(cons[i], c, ActionsNew),
                     [type |-> "TransactionCommit", client |-> c])
StrayTransactionRollback(i, c) ==
    /\ Alive(i) /\ ~is_leader(cons[i])
    /\ ClientRequest(i, client_transaction_rollback(cons[i], c, ActionsNew),
                     [type |-> "TransactionRollback", client |-> c])
InitStray == Constructed(Pair)
NextStray ==
    \/ \E i \in Server, j \in Server : i # j /\ Deliver(i, j)
    \/ \E i \in Server : ElectionTimeout(i)
    \/ \E i \in Server, p \in Server : HeartbeatTimeout(i, p)
    \/ \E i \in Server, c \in Client, x \in Session, e \in {Empty, requests[1] + 1} :
           StrayProposal(i, c, x, e)
    \/ \E i \in Server, c \in Client, x \in Session : StrayTransactionBegin(i, c, x)
    \/ \E i \in Server, c \in Client : StrayTransactionCommit(i, c)
    \/ \E i \in Server, c \in Client : StrayTransactionRollback(i, c)
SpecStray == InitStray /\ [][NextStray]_vars

\* Two DocLog instances of one process (the logs of two Consensus instances
\* with different LogIds), their term and vote operations called in any order.
Called(l, name, arg, fs, ret) ==
    /\ doclog.panic = ""
    /\ doclog' = [doclog EXCEPT
                     !.fs = fs,
                     !.call = [name |-> name, log |-> l, arg |-> arg, ret |-> ret,
                               before |-> [fs |-> doclog.fs,
                                           entries |-> doclog.entries[l]]]]
    /\ UNCHANGED <<cons, net, timers, actions, event, requests, quorum_a, quorum_b,
                   harness, requests_in_queue>>
SetCurrentTerm(l, term) ==
    Called(l, "set_current_term", <<term>>, doclog_set_current_term(doclog.fs, term), None)
SetVotedFor(l, v) ==
    Called(l, "set_voted_for", <<v>>, doclog_set_voted_for(doclog.fs, v), None)
IncCurrentTerm(l) ==
    /\ doclog_current_term(doclog.fs) < MaxTerm
    /\ LET r == doclog_inc_current_term(doclog.fs)
       IN  Called(l, "inc_current_term", <<>>, r.fs, r.ret)
InitDocLog == Constructed(Pair)
NextDocLog ==
    \E l \in LogIds :
        \/ \E term \in 0..MaxTerm : SetCurrentTerm(l, term)
        \/ \E v \in {None} \cup Pair : SetVotedFor(l, v)
        \/ IncCurrentTerm(l)
SpecDocLog == InitDocLog /\ [][NextDocLog]_vars

\* DocLog::append_entries called on either instance with any first index and
\* any entries that fit.
AppendEntries(l, from, es) ==
    /\ doclog.panic = ""
    /\ from - 1 + Len(es) <= MaxLog
    /\ LET r == append_entries([entries |-> doclog.entries[l], panic |-> ""], from, es)
       IN  doclog' = [doclog EXCEPT
                         !.entries[l] = r.entries,
                         !.panic = r.panic,
                         !.call = [name |-> "append_entries", log |-> l,
                                   arg |-> <<from, es>>, ret |-> None,
                                   before |-> [fs |-> doclog.fs,
                                               entries |-> doclog.entries[l]]]]
    /\ UNCHANGED <<cons, net, timers, actions, event, requests, quorum_a, quorum_b,
                   harness, requests_in_queue>>
InitAppend == Constructed(Pair)
NextAppend ==
    \E l \in LogIds, from \in 1..(MaxLog + 1), es \in Seqs((1..MaxTerm) \X Command, MaxLog) :
        AppendEntries(l, from, es)
SpecAppend == InitAppend /\ [][NextAppend]_vars

\* ------------------------------------------------------------- backfill
\* A cluster of two servers with a stable leader: one ElectionTimeout fires,
\* on either server, and none after it.  The clients may stop for good at any
\* moment after that; every message in flight is delivered in the end and
\* every armed HeartbeatTimeout fires in the end.
ClientsSilent == requests = <<MaxProposals, MaxTransactionRequests>>
FirstElectionTimeout(i) == (\A j \in Server : cons[j].current_term = 0) /\ ElectionTimeout(i)
Silence ==
    /\ \E j \in Server : cons[j].led # {}
    /\ ~ClientsSilent
    /\ requests' = <<MaxProposals, MaxTransactionRequests>>
    /\ UNCHANGED <<cons, net, timers, actions, event, quorum_a, quorum_b,
                   harness, requests_in_queue, doclog>>
InitBackfill == Constructed(Pair)
NextBackfill ==
    \/ \E i \in Server, j \in Server : i # j /\ Deliver(i, j)
    \/ \E i \in Server : FirstElectionTimeout(i)
    \/ \E i \in Server, p \in Server : HeartbeatTimeout(i, p)
    \/ \E i \in Server, c \in Client, x \in Session, e \in {Empty, requests[1] + 1} :
           ClientProposal(i, c, x, e)
    \/ \E i \in Server, c \in Client, x \in Session : ClientTransactionBegin(i, c, x)
    \/ \E i \in Server, c \in Client : ClientTransactionCommit(i, c)
    \/ \E i \in Server, c \in Client : ClientTransactionRollback(i, c)
    \/ Silence
FairDelivery ==
    /\ \A i \in Pair, j \in Pair : WF_vars(i # j /\ Deliver(i, j))
    /\ \A i \in Pair, p \in Pair : WF_vars(HeartbeatTimeout(i, p))
SpecBackfill == InitBackfill /\ [][NextBackfill]_vars /\ FairDelivery

\* -------------------------------------------------------------- answers
\* A cluster of two servers with a stable leader and two clients, each of
\* which proposes its own ClientId as the entry bytes, so that an entry tells
\* which client proposed it.
InitAnswers == Constructed(Pair)
NextAnswers ==
    \/ \E i \in Server, j \in Server : i # j /\ Deliver(i, j)
    \/ \E i \in Server : FirstElectionTimeout(i)
    \/ \E i \in Server, p \in Server : HeartbeatTimeout(i, p)
    \/ \E i \in Server, c \in {1, 2}, x \in Session : ClientProposal(i, c, x, c)
    \/ \E i \in Server, c \in Client, x \in Session : ClientTransactionBegin(i, c, x)
    \/ \E i \in Server, c \in Client : ClientTransactionCommit(i, c)
    \/ \E i \in Server, c \in Client : ClientTransactionRollback(i, c)
SpecAnswers == InitAnswers /\ [][NextAnswers]_vars

\* -------------------------------------------------------------- sessions
\* A cluster of three servers with elections and client transactions (no
\* proposals, no heartbeats): a leader can be elected by a majority that has
\* not heard of the transaction the previous leader opened.  Elections are
\* spaced: no ElectionTimeout fires while some server is Candidate, and only
\* servers 1 and 2 time out (server 3 votes and replicates).  The client of
\* server i opens session i.
MaxSessionRequests == 3
SessionRequest(i, r, m) ==
    /\ Alive(i)
    /\ is_leader(cons[i])
    /\ requests[2] < MaxSessionRequests
    /\ requests' = <<requests[1], requests[2] + 1>>
    /\ Handled(i, r, Event("ClientRequest", cons[i], m.client, m), sent(i, r.a))
SessionBegin(i, c, session) ==
    SessionRequest(i, client_transaction_begin(cons[i], c, session, ActionsNew),
                   [type |-> "TransactionBegin", client |-> c, session |-> session])
SessionCommit(i, c) ==
    SessionRequest(i, client_transaction_commit(cons[i], c, ActionsNew),
                   [type |-> "TransactionCommit", client |-> c])
InitSession == Constructed(Trio)
NextSession ==
    \/ \E i \in Server, j \in Server : i # j /\ Deliver(i, j)
    \/ \E i \in Pair :
           (\A j \in Server : ~is_candidate(cons[j])) /\ ElectionTimeout(i)
    \/ \E i \in Pair, c \in Client : SessionBegin(i, c, i)
    \/ \E i \in Server, c \in Client : SessionCommit(i, c)
SpecSession == InitSession /\ [][NextSession]_vars

\* ------------------------------------------------------------ properties
Entries(i) == cons[i].entries
BecameLeader(i) ==
    /\ event.server = i
    /\ event.pre.state # "Leader"
    /\ cons[i].state = "Leader"
PeerEvent(type) == event.kind = "PeerMessage" /\ event.msg.type = type
ClientEvent(type) == event.kind = "ClientRequest" /\ event.msg.type = type

\* C1: election safety. No term has two servers that were ever Leader in it,
\* and no Leader has aborted on an AppendEntriesRequest of its own term.
ElectionSafety ==
    /\ \A i \in Server, j \in Server : i # j => cons[i].led \cap cons[j].led = {}
    /\ \A i \in Server : cons[i].panic # "peer leader with matching term"

\* C1, its case: an election two candidates of one term contested, won by one.
ContestedElection ==
    \E i \in Server, j \in Server :
        /\ i # j
        /\ is_leader(cons[i]) /\ is_candidate(cons[j])
        /\ cons[i].current_term = cons[j].current_term

\* C2: log matching. Two logs that hold the same term at an index are
\* identical (term and bytes) up to and including that index.
LogMatching ==
    \A i \in Server, j \in Server :
        \A k \in 1..Min(Len(Entries(i)), Len(Entries(j))) :
            Entries(i)[k][1] = Entries(j)[k][1]
                => SubSeq(Entries(i), 1, k) = SubSeq(Entries(j), 1, k)

\* C3: leader completeness. A server that has just become Leader holds, at
\* the same index, every entry a leader of an earlier term committed.
LeaderCompleteness ==
    \A i \in Server :
        BecameLeader(i) =>
            \A j \in Server : \A c \in cons[j].committed :
                c.term < cons[i].current_term
                    => /\ Len(Entries(i)) >= c.index
                       /\ Entries(i)[c.index] = c.entry

\* C4: state-machine safety. At every index two replicas have both committed
\* and applied, both handed the same command to the state machine.
StateMachineSafety ==
    \A i \in {s \in Server : Alive(s)}, j \in {s \in Server : Alive(s)} :
        \A k \in 1..Min(Min(cons[i].commit_index, cons[i].last_applied),
                         Min(cons[j].commit_index, cons[j].last_applied)) :
            (k \in DOMAIN cons[i].applied_at /\ k \in DOMAIN cons[j].applied_at)
                => cons[i].applied_at[k] = cons[j].applied_at[k]

\* C5: majority() is floor(n/2)+1 on a cluster of n servers, more than half
\* of n, and any two sets of servers of that size have a server in common.
MajorityQuorum ==
    /\ \A i \in Server :
           LET n == Cardinality(cons[i].peers) + 1
           IN  /\ majority(cons[i]) = (n \div 2) + 1
               /\ 2 * majority(cons[i]) > n
    /\ (quorum_a # {} /\ quorum_b # {}) => quorum_a \cap quorum_b # {}

\* C5, its case: two different quorums on the largest cluster.
TwoQuorums ==
    /\ Cardinality(Server) = MaxClusterSize
    /\ quorum_a # {} /\ quorum_b # {} /\ quorum_a # quorum_b

\* C6: transaction atomicity of the indices. After a leader has handled a
\* client rollback of an active transaction, commit_index, last_applied and
\* latest_log_index are what they were when the transaction was begun.
RollbackRestoresIndices ==
    (ClientEvent("TransactionRollback") /\ is_leader(event.pre)
        /\ event.pre.transaction.is_active)
        => LET s == cons[event.server]
           IN  <<s.commit_index, s.last_applied, latest_log_index(s)>> = event.pre.begun

\* C7: reorder robustness. When a follower has accepted an
\* AppendEntriesRequest and the next event it handles is a request of the
\* same term and the same prev carrying a proper prefix of those entries, it
\* emits nothing and stays exactly as it was.
IsStrictPrefix(p, q) == Len(p) < Len(q) /\ p = SubSeq(q, 1, Len(p))
Accepted(a) ==
    \E k \in 1..Len(a.peer_messages) :
        /\ a.peer_messages[k][2].type = "AppendEntriesResponse"
        /\ a.peer_messages[k][2].which = "Success"
ReorderRobustness ==
    [][(/\ PeerEvent("AppendEntriesRequest") /\ Accepted(actions)
        /\ event'.kind = "PeerMessage" /\ event'.msg.type = "AppendEntriesRequest"
        /\ event'.server = event.server
        /\ event'.msg.term = event.msg.term
        /\ event'.msg.prev_log_index = event.msg.prev_log_index
        /\ event'.msg.prev_log_term = event.msg.prev_log_term
        /\ IsStrictPrefix(event'.msg.entries, event.msg.entries))
           => (actions' = ActionsNew /\ cons' = cons)]_vars

\* C7, its case: a follower that holds k entries it accepted has handled a
\* request of its term carrying only the first j < k of them.
DuplicatedPrefixDropped ==
    /\ PeerEvent("AppendEntriesRequest")
    /\ LET m == event.msg
           pre == event.pre
       IN  /\ pre.current_term = m.term
           /\ pre.min_index = Len(pre.entries)
           /\ Len(m.entries) >= 1
           /\ m.prev_log_index + Len(m.entries) < Len(pre.entries)
           /\ IsStrictPrefix(m.entries,
                   SubSeq(pre.entries, m.prev_log_index + 1, Len(pre.entries)))
           /\ actions = ActionsNew
           /\ cons[event.server] = pre

CommitCoversApplied ==
    \A i \in Server : Alive(i) => cons[i].commit_index >= cons[i].last_applied

\* C10: on every server commit_index <= latest_log_index.
CommitWithinLog ==
    \A i \in Server : Alive(i) => cons[i].commit_index <= latest_log_index(cons[i])

\* C10, its case: a leader holding a committed entry has rolled a transaction
\* back and cut its log down to that entry.
RolledBackToCommitted ==
    /\ ClientEvent("TransactionRollback")
    /\ event.pre.transaction.is_active
    /\ LET s == cons[event.server]
       IN  /\ Alive(event.server)
           /\ Len(s.entries) < Len(event.pre.entries)
           /\ s.commit_index = latest_log_index(s)
           /\ s.commit_index > 0

\* C11: a client TransactionBegin handled by a leader whose transaction is
\* active changes nothing, broadcasts nothing and answers the client with
\* transaction_failure AlreadyActive.
BeginWhileActiveRejected ==
    (ClientEvent("TransactionBegin") /\ is_leader(event.pre)
        /\ event.pre.transaction.is_active)
        => /\ cons[event.server] = event.pre
           /\ actions.peer_messages_broadcast = <<>>
           /\ actions.peer_messages = <<>>
           /\ actions.client_messages =
                  <<<<event.from, ClientResponse("transaction_failure", "AlreadyActive")>>>>

\* C12: a server that has just become Leader has no active transaction.
NewLeaderHasNoTransaction ==
    \A i \in Server : BecameLeader(i) => ~cons[i].transaction.is_active

\* C12, its case: a follower with a mirrored transaction active has won an
\* election.
LeaderElectedInTransaction ==
    \E i \in Server :
        /\ BecameLeader(i)
        /\ event.pre.transaction.is_active
        /\ Alive(i)

\* C20: a client TransactionCommit or TransactionRollback handled by a leader
\* with no active transaction answers the client with one
\* transaction_failure, sends and broadcasts nothing and changes nothing.
MisuseRejected ==
    ((ClientEvent("TransactionCommit") \/ ClientEvent("TransactionRollback"))
        /\ is_leader(event.pre) /\ ~event.pre.transaction.is_active)
        => /\ cons[event.server] = event.pre
           /\ actions.peer_messages_broadcast = <<>>
           /\ actions.peer_messages = <<>>
           /\ Len(actions.client_messages) = 1
           /\ actions.client_messages[1][1] = event.from
           /\ actions.client_messages[1][2].which = "transaction_failure"

\* C20, its case: a leader holding entries, with no transaction, has handled
\* a client TransactionRollback.
RollbackWithoutTransaction ==
    /\ ClientEvent("TransactionRollback")
    /\ is_leader(event.pre) /\ ~event.pre.transaction.is_active
    /\ Len(event.pre.entries) > 0

\* C15: heartbeat round trip. (1) A Leader handling HeartbeatTimeout(p) sends
\* p exactly one AppendEntriesRequest: no entries, its term, its latest index
\* and term as prev, its commit_index. (2) A Follower whose log ends at that
\* prev answers the leader Success and arms an ElectionTimeout. (3) The Leader
\* handling a Success, with the peer's next_index beyond its latest index,
\* arms HeartbeatTimeout(p) and sends nothing.
HeartbeatSent ==
    (event.kind = "HeartbeatTimeout" /\ is_leader(event.pre))
        => actions.peer_messages =
              <<<<event.from,
                  AppendEntriesRequestMsg(event.pre.current_term,
                      latest_log_index(event.pre), latest_log_term(event.pre), <<>>,
                      event.pre.commit_index)>>>>
CaughtUp(s, m) ==
    /\ is_follower(s)
    /\ m.term >= s.current_term
    /\ m.entries = <<>>
    /\ latest_log_index(s) = m.prev_log_index
    /\ latest_log_term(s) = m.prev_log_term
HeartbeatAnswered ==
    (PeerEvent("AppendEntriesRequest") /\ CaughtUp(event.pre, event.msg))
        => /\ actions.peer_messages =
                  <<<<event.from,
                      AppendEntriesResponseMsg(event.msg.term, "Success",
                                               event.msg.prev_log_index)>>>>
           /\ \E k \in 1..Len(actions.timeouts) : actions.timeouts[k] = ElectionTimer
HeartbeatRearmed ==
    (PeerEvent("AppendEntriesResponse") /\ event.msg.which = "Success"
        /\ is_leader(event.pre) /\ event.msg.term = event.pre.current_term
        /\ Alive(event.server)
        /\ cons[event.server].next_index[event.from]
               > latest_log_index(cons[event.server]))
        => /\ actions.timeouts = <<HeartbeatTimer(event.from)>>
           /\ actions.peer_messages = <<>>
HeartbeatRoundTrip == HeartbeatSent /\ HeartbeatAnswered /\ HeartbeatRearmed

\* C13: a freshly created server without peers that handles one
\* ElectionTimeout is Leader afterwards, its term is one higher, it has voted
\* for itself, and the Actions of the event hold no peer message, no client
\* message and no timeout.
SolitaryElection ==
    (event.kind = "ElectionTimeout" /\ event.pre = ConsensusNew(event.server, {}))
        => /\ is_leader(cons[event.server])
           /\ cons[event.server].current_term = event.pre.current_term + 1
           /\ cons[event.server].voted_for = event.server
           /\ actions.peer_messages = <<>>
           /\ actions.peer_messages_broadcast = <<>>
           /\ actions.client_messages = <<>>
           /\ actions.timeouts = <<>>
SolitaryLeader ==
    /\ event.kind = "ElectionTimeout"
    /\ event.pre = ConsensusNew(event.server, {})
    /\ cons[event.server].state = "Leader"
    /\ cons[event.server].current_term = 1

\* C14: in a fresh cluster of 1..MaxScenarioServers servers, once the only
\* stimulus so far is one ElectionTimeout on a server A and every resulting
\* peer message has been applied front first, A is Leader in term 1, every
\* other server is a Follower in term 1 whose leader is A, and no client
\* message has been produced.
OnlyElection ==
    /\ Len(harness.script) = 1
    /\ harness.script[1].kind = "ElectionTimeout"
    /\ Quiet
UncontestedElection ==
    OnlyElection =>
        LET A == harness.script[1].server
        IN  /\ cons[A].state = "Leader"
            /\ cons[A].current_term = 1
            /\ \A j \in Server \ {A} :
                   /\ cons[j].state = "Follower"
                   /\ cons[j].current_term = 1
                   /\ cons[j].leader = A
            /\ harness.client_messages = <<>>
LargestClusterElected ==
    /\ OnlyElection
    /\ Cardinality(Server) = MaxScenarioServers
    /\ PeerEvent("AppendEntriesResponse")
    /\ cons[harness.script[1].server].state = "Leader"

\* C16: in a cluster of two, A elected in term 1, A's heartbeat to B held
\* back, B's ElectionTimeout applied and drained: B is Leader in term 2 and A
\* is Follower.  When the held heartbeat is applied afterwards B answers
\* StaleTerm, both roles stay, and no client message is produced.
SlowHeartbeatScript ==
    /\ Cardinality(Server) = 2
    /\ Len(harness.script) = 3
    /\ harness.script[1].kind = "ElectionTimeout"
    /\ harness.script[2] = Stimulus("HeartbeatTimeout", harness.script[1].server,
                                    harness.script[3].server, TRUE, Empty)
    /\ harness.script[3].kind = "ElectionTimeout"
    /\ harness.script[3].server # harness.script[1].server
StaleHeartbeatEvent ==
    /\ PeerEvent("AppendEntriesRequest")
    /\ event.from = harness.script[1].server
    /\ event.server = harness.script[3].server
    /\ Len(harness.held) = 0
SlowHeartbeat ==
    SlowHeartbeatScript =>
        LET A == harness.script[1].server
            B == harness.script[3].server
        IN  /\ Quiet => /\ cons[B].state = "Leader"
                        /\ cons[B].current_term = 2
                        /\ cons[A].state = "Follower"
                        /\ harness.client_messages = <<>>
            /\ StaleHeartbeatEvent =>
                   /\ actions.peer_messages =
                          <<<<A, AppendEntriesResponseMsg(2, "StaleTerm", 0)>>>>
                   /\ cons[B] = event.pre
                   /\ cons[A].state = "Follower"
                   /\ actions.client_messages = <<>>
StaleHeartbeatAnswered ==
    /\ SlowHeartbeatScript
    /\ Quiet
    /\ Len(harness.held) = 0
    /\ PeerEvent("AppendEntriesResponse")
    /\ event.msg.which = "StaleTerm"
    /\ event.server = harness.script[1].server

\* C17: in a cluster of 1..MaxScenarioServers servers whose leader was
\* elected in term 1 with empty logs, once one non-empty proposal has been
\* submitted to the leader and every resulting peer message applied, every
\* server's log holds (term 1, the proposed bytes) at index 1 and the client
\* messages collected are exactly one success.
ProposalDrained ==
    /\ Len(harness.script) = 2
    /\ harness.script[1].kind = "ElectionTimeout"
    /\ harness.script[2].kind = "Proposal"
    /\ harness.script[2].entry # Empty
    /\ Quiet
ProposalReplication ==
    ProposalDrained =>
        /\ \A j \in Server :
               /\ Len(Entries(j)) >= 1
               /\ Entries(j)[1] = <<1, harness.script[2].entry>>
        /\ Len(harness.client_messages) = 1
        /\ harness.client_messages[1][2].which = "success"
ProposalAcknowledged ==
    /\ ProposalDrained
    /\ Cardinality(Server) = MaxScenarioServers
    /\ Len(harness.client_messages) = 1
    /\ \A j \in Server : Len(Entries(j)) = 1

\* C18: a RequestVoteRequest is answered Granted exactly when the candidate's
\* term is at least the voter's, the candidate's log is at least as up to
\* date (its last term is higher, or equal with an index at least the
\* voter's), and in the resulting term the voter has voted for nobody or for
\* this candidate; a granted vote leaves voted_for = candidate.
UpToDate(s, m) ==
    \/ m.last_log_term > latest_log_term(s)
    \/ /\ m.last_log_term = latest_log_term(s)
       /\ m.last_log_index >= latest_log_index(s)
Acknowledges(k, entry) ==
    /\ harness.client_messages[k][2].which = "success"
    /\ harness.client_messages[k][2].payload[2] = entry
AcknowledgementOrder ==
    \A p, q \in 1..Len(harness.script) :
        (p < q /\ harness.script[p].session = harness.script[q].session)
            => \A a, b \in 1..Len(harness.client_messages) :
                   (Acknowledges(a, harness.script[p].entry)
                    /\ Acknowledges(b, harness.script[q].entry)) => a < b

\* C21: a client request of any kind handled by a server that is not Leader
\* completes, leaves the instance unchanged and pushes exactly one client
\* message: unknown_leader when the server is a Candidate or has no leader
\* hint, not_leader with the hinted leader otherwise.
NonLeaderReply ==
    (event.kind = "ClientRequest" /\ ~is_leader(event.pre)) =>
        /\ cons[event.server] = event.pre
        /\ actions.client_messages =
               <<<<event.from,
                   IF is_candidate(event.pre) \/ event.pre.leader = None
                   THEN ClientResponse("unknown_leader", None)
                   ELSE ClientResponse("not_leader", event.pre.leader)>>>>

\* C22: after set_current_term(t), current_term() is t and voted_for() is
\* None; after set_voted_for(v), voted_for() is v and current_term() is what
\* it was; after inc_current_term(), current_term() is one higher, is the
\* value returned, and voted_for() is None.
TermVoteContract ==
    LET before == doclog.call.before.fs
    IN  /\ doclog.call.name = "set_current_term" =>
               /\ doclog_current_term(doclog.fs) = doclog.call.arg[1]
               /\ doclog_voted_for(doclog.fs) = None
        /\ doclog.call.name = "set_voted_for" =>
               /\ doclog_voted_for(doclog.fs) = doclog.call.arg[1]
               /\ doclog_current_term(doclog.fs) = doclog_current_term(before)
        /\ doclog.call.name = "inc_current_term" =>
               /\ doclog_current_term(doclog.fs) = doclog_current_term(before) + 1
               /\ doclog.call.ret = doclog_current_term(doclog.fs)
               /\ doclog_voted_for(doclog.fs) = None
VoteClearedByTerm ==
    /\ doclog.call.name = "set_current_term"
    /\ doclog_voted_for(doclog.call.before.fs) # None
    /\ doclog_voted_for(doclog.fs) = None
    /\ doclog_current_term(doclog.fs) = MaxTerm

\* C23: append_entries(from, es) with from <= latest_log_index + 1 leaves the
\* old entries 1..from-1 followed by es: latest_log_index is from - 1 + |es|
\* and latest_log_term is the term of the last entry, 0 for an empty log.
AppendContract ==
    LET old == doclog.call.before.entries
        from == doclog.call.arg[1]
        es == doclog.call.arg[2]
        new == [entries |-> doclog.entries[doclog.call.log]]
    IN  (doclog.call.name = "append_entries" /\ from <= Len(old) + 1) =>
            /\ doclog.panic = ""
            /\ new.entries = SubSeq(old, 1, from - 1) \o es
            /\ latest_log_index(new) = from - 1 + Len(es)
            /\ latest_log_term(new) =
                   IF from - 1 + Len(es) = 0 THEN 0
                   ELSE (SubSeq(old, 1, from - 1) \o es)[from - 1 + Len(es)][1]
TailDiscarded ==
    /\ doclog.call.name = "append_entries"
    /\ Len(doclog.call.before.entries) = MaxLog
    /\ doclog.call.arg = <<1, <<>>>>
    /\ doclog.entries[doclog.call.log] = <<>>

\* C24: set_current_term, inc_current_term or set_voted_for called on one
\* instance's log changes neither the current_term nor the voted_for observed
\* through the log of the other instance.
LogIndependence ==
    doclog.call.name \in {"set_current_term", "inc_current_term", "set_voted_for"} =>
        \A other \in LogIds \ {doclog.call.log} :
            /\ observed_current_term(doclog.fs, other)
                   = observed_current_term(doclog.call.before.fs, other)
            /\ observed_voted_for(doclog.fs, other)
                   = observed_voted_for(doclog.call.before.fs, other)

\* C25: when a Candidate whose transaction is active becomes Leader, the same
\* event broadcasts TransactionRollback, sets commit_index and last_applied to
\* the saved values, leaves no entry above the saved commit_index in the log,
\* and sets every peer's next_index to the saved commit_index + 1.
LeaderTransitionRollsBack ==
    \A i \in Server :
        (BecameLeader(i) /\ event.pre.transaction.is_active) =>
            LET t == event.pre.transaction
            IN  /\ actions.peer_messages_broadcast =
                       <<TransactionMsg("TransactionRollback", t.session)>>
                /\ ~cons[i].transaction.is_active
                /\ cons[i].commit_index = t.commit_index
                /\ cons[i].last_applied = t.last_applied
                /\ latest_log_index(cons[i]) = t.commit_index
                /\ \A p \in cons[i].peers : cons[i].next_index[p] = t.commit_index + 1

\* C26: while a transaction is active on the leader, a client Proposal of
\* another session goes into Actions.transaction_queue: the log is unchanged,
\* no peer message and no client message is pushed, and the inflight counter
\* grows by one.  A Proposal of the transaction's session is appended at
\* latest_log_index + 1 with the current term and sent to the peers whose
\* next_index is that index, as without a transaction.
ProposalAdmission ==
    (ClientEvent("Proposal") /\ is_leader(event.pre) /\ event.pre.transaction.is_active) =>
        LET pre == event.pre
            s == cons[event.server]
            m == event.msg
            log_index == latest_log_index(pre) + 1
        IN  IF m.session # pre.transaction.session
            THEN /\ actions.transaction_queue =
                        <<<<event.from, [session |-> m.session, entry |-> m.entry]>>>>
                 /\ s = [pre EXCEPT !.transaction.inflight = @ + 1]
                 /\ actions.peer_messages = <<>>
                 /\ actions.peer_messages_broadcast = <<>>
                 /\ actions.client_messages = <<>>
            ELSE /\ actions.transaction_queue = <<>>
                 /\ s.entries = pre.entries \o <<<<pre.current_term, m.entry>>>>
                 /\ s.transaction = pre.transaction
                 /\ {actions.peer_messages[k] : k \in 1..Len(actions.peer_messages)} =
                        {<<p, AppendEntriesRequestMsg(pre.current_term,
                                   latest_log_index(pre), latest_log_term(pre),
                                   <<<<pre.current_term, m.entry>>>>, pre.commit_index)>> :
                            p \in {q \in pre.peers : pre.next_index[q] = log_index}}
ProposalQueued ==
    /\ ClientEvent("Proposal")
    /\ event.pre.transaction.is_active
    /\ Len(actions.transaction_queue) = 1
    /\ cons[event.server].transaction.inflight = 1
    /\ cons[event.server].entries = event.pre.entries

\* An event in which server i rolls an active transaction back: a client
\* TransactionRollback on the leader, a peer TransactionRollback, or the
\* transition to Leader.
RollbackEvent(i) ==
    /\ event.server = i
    /\ event.pre.transaction.is_active
    /\ \/ ClientEvent("TransactionRollback") /\ is_leader(event.pre)
       \/ PeerEvent("TransactionRollback")
       \/ BecameLeader(i)
\* The indices whose entry the rollback hands to revert: every entry above the
\* saved commit_index.
RevertedIndices(pre) ==
    {k \in 1..Len(pre.entries) : k > pre.transaction.commit_index}
\* The indices whose entry was handed to apply since the transaction began.
AppliedSinceBegin(pre) ==
    {k \in 1..Len(pre.entries) :
        /\ k > pre.transaction.last_applied
        /\ k <= pre.last_applied
        /\ pre.entries[k][2] # Empty}

\* C27: in every rollback that completes, revert is invoked for exactly the
\* entries handed to apply since the transaction began, and the state machine
\* is afterwards what it was before those entries were applied.
RevertDiscipline ==
    \A i \in Server :
        (RollbackEvent(i) /\ Alive(i)) =>
            LET pre == event.pre
                n == Cardinality(AppliedSinceBegin(pre))
            IN  /\ RevertedIndices(pre) = AppliedSinceBegin(pre)
                /\ n <= Len(pre.state_machine)
                /\ cons[i].state_machine =
                       SubSeq(pre.state_machine, 1, Len(pre.state_machine) - n)

\* C28: a peer TransactionRollback handled with a transaction active completes
\* without aborting, leaves the transaction inactive, commit_index and
\* last_applied at the values saved at begin, min_index at the value saved at
\* begin (when the transaction was recorded from a peer), and the log no longer
\* than the saved commit_index.
MirroredRollback ==
    (PeerEvent("TransactionRollback") /\ event.pre.transaction.is_active) =>
        LET t == event.pre.transaction
            s == cons[event.server]
        IN  /\ s.panic = ""
            /\ ~s.transaction.is_active
            /\ s.commit_index = t.commit_index
            /\ s.last_applied = t.last_applied
            /\ t.has_follower_min => s.min_index = t.follower_min_index
            /\ latest_log_index(s) = t.commit_index

\* C29: every AppendEntriesRequest whose term is not lower than the receiver's
\* current_term, and whose handling completes, arms an ElectionTimeout in the
\* Actions of that event.
ElectionTimerReset ==
    (/\ PeerEvent("AppendEntriesRequest")
     /\ event.msg.term >= event.pre.current_term
     /\ Alive(event.server)) =>
        \E k \in 1..Len(actions.timeouts) : actions.timeouts[k] = ElectionTimer

\* C30: every event in which a server's role changes puts the log id into
\* Actions.clear_timeouts and sets Actions.clear_peer_messages.
RoleChangeClears ==
    \A i \in Server :
        (event.server = i /\ Alive(i) /\ event.pre.state # cons[i].state) =>
            /\ \E k \in 1..Len(actions.clear_timeouts) : actions.clear_timeouts[k] = "lid"
            /\ actions.clear_peer_messages

\* The number of ElectionTimeouts among the timeouts of the latest Actions.
ElectionTimersArmed ==
    Cardinality({k \in 1..Len(actions.timeouts) : actions.timeouts[k] = ElectionTimer})

\* C31: the Actions of one event arm at most one ElectionTimeout for the log,
\* and none when the server is Leader after the event.
SingleElectionTimer ==
    /\ ElectionTimersArmed <= 1
    /\ \A i \in Server :
           (event.server = i /\ Alive(i) /\ is_leader(cons[i])) => ElectionTimersArmed = 0

\* C32: when a leader advances commit_index, every newly committed index holds
\* an entry of the leader's current term.
CurrentTermCommit ==
    \A i \in Server :
        (/\ event.server = i
         /\ Alive(i)
         /\ is_leader(event.pre)
         /\ is_leader(cons[i])
         /\ cons[i].commit_index > event.pre.commit_index) =>
            \A n \in (event.pre.commit_index + 1)..cons[i].commit_index :
                /\ n <= Len(cons[i].entries)
                /\ cons[i].entries[n][1] = cons[i].current_term

\* The servers whose log holds at index n the entry that server i holds there.
Holders(i, n) ==
    {j \in Server : /\ n <= Len(cons[j].entries)
                    /\ n <= Len(cons[i].entries)
                    /\ cons[j].entries[n] = cons[i].entries[n]}

\* C33: at the moment a leader advances commit_index to n, at least majority()
\* servers, the leader included, hold the leader's entry at n.
CommitMeansReplicated ==
    \A i \in Server :
        (/\ event.server = i
         /\ Alive(i)
         /\ is_leader(event.pre)
         /\ is_leader(cons[i])
         /\ cons[i].commit_index > event.pre.commit_index) =>
            \A n \in (event.pre.commit_index + 1)..cons[i].commit_index :
                Cardinality(Holders(i, n)) >= majority(cons[i])

\* A follower's log differs from the log of the stable leader after the
\* clients have stopped, and both servers are running.
Lagging ==
    \E l \in Server, f \in Server :
        /\ ClientsSilent
        /\ is_leader(cons[l])
        /\ l # f
        /\ Alive(l) /\ Alive(f)
        /\ cons[f].entries # cons[l].entries
\* No message is in flight and no HeartbeatTimeout is armed: with the clients
\* silent and no ElectionTimeout, no event will ever happen again.
Idle ==
    /\ \A ch \in DOMAIN net : Len(net[ch]) = 0
    /\ \A i \in Server : timers[i] = {}

\* C34: with a stable leader, silent clients and fair delivery, a follower
\* whose log differs from the leader's ends with the leader's log and with a
\* HeartbeatTimeout armed on the leader.  Stated on finite runs: while a
\* follower's log differs, a message is in flight or a HeartbeatTimeout is
\* armed, so the exchange that brings the follower up to date has not stopped.
BackfillConvergence == Lagging => ~Idle

\* The list q without its k-th element.
Without(q, k) == SubSeq(q, 1, k - 1) \o SubSeq(q, k + 1, Len(q))
\* What a handle_queue step of server i does to the server, the pending list
\* and the Actions.
Drains(i) ==
    LET s == cons[i]
        q == requests_in_queue[i]
    IN  /\ cons'[i].panic = ""
        /\ IF s.transaction.is_active
           THEN /\ cons'[i] = s
                /\ requests_in_queue'[i] = q
                /\ actions' = ActionsNew
           ELSE \E k \in 1..Len(q) :
                    LET r == client_proposal(s, q[k][1], q[k][2].session, q[k][2].entry,
                                             ActionsNew)
                    IN  /\ requests_in_queue'[i] = Without(q, k)
                        /\ cons'[i] = r.s
                        /\ actions' = r.a

OneVotePerTerm ==
    \A i \in Server :
        (/\ event.server = i
         /\ Alive(i)
         /\ event.pre.current_term = cons[i].current_term
         /\ event.pre.voted_for # None) =>
            cons[i].voted_for = event.pre.voted_for

\* C37: in advance_commit_index every proposal answered from the head of the
\* proposal FIFO has a result recorded by the apply_commits call of the same
\* event, so the lookup of the result never aborts.
ResultAvailable ==
    \A i \in Server : cons[i].panic # "advance_commit_index: no result"

\* The CommandResponseSuccess messages among the client messages of the
\* latest Actions, as <<client, <<index, bytes>>>>.
Successes ==
    {k \in 1..Len(actions.client_messages) : actions.client_messages[k][2].which = "success"}

\* C38: every CommandResponseSuccess goes to the client that proposed the
\* entry the leader's log holds at the answered index, that index is
\* committed, and one event answers no index twice.
ResponsesMatchProposals ==
    /\ \A k \in Successes :
           LET to == actions.client_messages[k][1]
               answer == actions.client_messages[k][2].payload
           IN  /\ answer[2] = to
               /\ answer[1] <= cons[event.server].commit_index
    /\ \A k \in Successes, n \in Successes :
           k # n => actions.client_messages[k][2].payload[1] #
                        actions.client_messages[n][2].payload[1]

\* C39: a Follower that replies Success to an AppendEntriesRequest of peer P
\* has P as its leader hint afterwards.
LeaderHintAccuracy ==
    \A i \in Server :
        (/\ PeerEvent("AppendEntriesRequest")
         /\ event.server = i
         /\ Alive(i)
         /\ \E k \in 1..Len(actions.peer_messages) :
                /\ actions.peer_messages[k][2].type = "AppendEntriesResponse"
                /\ actions.peer_messages[k][2].which = "Success") =>
            cons[i].leader = event.from

\* C40: whenever a server with an active transaction handles a peer
\* TransactionCommit, the session of the message is the session it has
\* stored: the assertion in transaction_commit never fails.
SessionAgreement ==
    /\ \A i \in Server : cons[i].panic # "assert_eq session"
    /\ (PeerEvent("TransactionCommit") /\ event.pre.transaction.is_active) =>
           event.msg.session = event.pre.transaction.session
====
